---- MODULE Spec2Model ----
(***************************************************************************)
(* The service-area editor of local-pages: the LocationsMap component      *)
(* (mode, caches, candidate geometry, transient shape layer), the server   *)
(* actions it calls and the Supabase gateway functions behind them.        *)
(***************************************************************************)
EXTENDS Integers, Sequences, FiniteSets, Bags, TLC

\* ------------------------------------------------------------------ bounds
\* Ids the gateway can hand out before the table is full.
MaxId == 1
\* Distinct rings the drawing toolkit can produce.
NumRings == 2
\* List fetches that may be in flight at once.
MaxLoads == 2
\* The same, where the order of overlapping list fetches is examined.
MaxRaceLoads == 3
\* Rows the table can hold when the server actions are called directly.
MaxDirectId == 2

\* ------------------------------------------------------------- null values
\* JavaScript null for an object-valued state (ServiceArea | null, GeoJSON | null).
NULL == [null |-> TRUE]
\* JavaScript null / undefined / "" for a string-valued state: all are falsy.
NIL == ""

\* ------------------------------------------------------- sessions, tenants
\* The verified email of the session that has the editor open.
SessionEmail == "owner@example.com"
\* The verified emails of all sessions that can call the server actions.
Emails == {"owner@example.com", "attacker@example.com"}
\* company.id, the prop the editor was rendered with.
CompanyId == "C1"
Companies == {"C1", "C2"}
\* The services table: read only by this core.
ServiceTable ==
    { [id |-> "S1", company_id |-> "C1"], [id |-> "S2", company_id |-> "C2"] }

\* ---------------------------------------------------------------- geometry
GeometryTypes == {"Polygon", "MultiPolygon"}
Rings == 1..NumRings
\* A GeoJSON geometry object.
Geometry(t, r) == [type |-> t, coordinates |-> r]
Polygon(r) == Geometry("Polygon", r)
Polygons == {Polygon(r) : r \in Rings}

\* JSON.stringify of a geometry: the text, as its tokens.
JSONstringify(g) == <<"{", g.type, g.coordinates, "}">>
\* JSON.parse: throws (ok = FALSE) on text that is not a complete object.
JSONparse(s) ==
    IF Len(s) = 4 /\ s[1] = "{" /\ s[4] = "}"
    THEN [ok |-> TRUE, value |-> [type |-> s[2], coordinates |-> s[3]]]
    ELSE [ok |-> FALSE, value |-> NULL]
\* Boolean.prototype.toString
\* A toString that capitalises.
BoolToStringCapital(b) == IF b THEN "True" ELSE "False"

BoolToString(b) == IF b THEN "true" ELSE "false"

\* ------------------------------------------------------- the gateway (rows)
RowsOfCompany(st, companyId) == {r \in st : r.company_id = companyId}

RECURSIVE SortById(_)
\* The rows of a result set as the array the client receives (by id).
SortById(rows) ==
    IF rows = {} THEN <<>>
    ELSE LET first == CHOOSE r \in rows : \A q \in rows : r.id <= q.id
         IN <<first>> \o SortById(rows \ {first})

\* getServiceAreasByCompanyId: select * where company_id = companyId.
getServiceAreasByCompanyId(st, companyId, dbError) ==
    IF dbError
    THEN [serviceAreas |-> <<>>, error |-> "db error"]
    ELSE [serviceAreas |-> SortById(RowsOfCompany(st, companyId)), error |-> NIL]

\* getServicesByCompanyId: select * where company_id = companyId.
getServicesByCompanyId(companyId, dbError) ==
    IF dbError
    THEN [services |-> {}, error |-> "db error"]
    ELSE [services |-> {s.id : s \in {t \in ServiceTable : t.company_id = companyId}},
          error |-> NIL]

\* createServiceArea: insert(serviceAreaData).select().single()
createServiceArea(st, nid, serviceAreaData, dbError) ==
    IF dbError
    THEN [store |-> st, nextId |-> nid, error |-> "db error"]
    ELSE [store |-> st \cup {[id |-> nid,
                              service_id |-> serviceAreaData.service_id,
                              company_id |-> serviceAreaData.company_id,
                              geojson |-> serviceAreaData.geojson,
                              is_active |-> serviceAreaData.is_active,
                              email |-> serviceAreaData.email]},
          nextId |-> nid + 1, error |-> NIL]

\* A scope that forgets the owner: .eq("id", id) alone.
ScopedRowsById(st, id, email) == {r \in st : r.id = id}

\* The rows an update or delete is scoped to: .eq("id", id).eq("email", email)
ScopedRows(st, id, email) == {r \in st : r.id = id /\ r.email = email}

\* An update that writes the whole payload, company_id included (absent: NIL).
updateServiceAreaWholeRow(st, serviceAreaData, dbError) ==
    LET hit == {r \in st : r.id = serviceAreaData.id /\ r.email = serviceAreaData.email}
    IN IF dbError \/ Cardinality(hit) # 1
       THEN [store |-> st, error |-> "db error"]
       ELSE [store |-> (st \ hit) \cup
                        {[r EXCEPT !.geojson = serviceAreaData.geojson,
                                   !.is_active = serviceAreaData.is_active,
                                   !.company_id = NIL] : r \in hit},
             error |-> NIL]

\* An update that takes the first row of the id, whoever owns it.
updateServiceAreaAnyOwner(st, serviceAreaData, dbError) ==
    LET hit == {r \in st : r.id = serviceAreaData.id}
    IN IF dbError \/ Cardinality(hit) # 1
       THEN [store |-> st, error |-> "db error"]
       ELSE [store |-> (st \ hit) \cup
                        {[r EXCEPT !.geojson = serviceAreaData.geojson,
                                   !.is_active = serviceAreaData.is_active] : r \in hit},
             error |-> NIL]

\* updateServiceArea: update(serviceAreaData).eq(id).eq(email).select().single()
\* single() is an error unless exactly one row comes back.
updateServiceArea(st, serviceAreaData, dbError) ==
    LET hit == ScopedRows(st, serviceAreaData.id, serviceAreaData.email)
    IN IF dbError \/ Cardinality(hit) # 1
       THEN [store |-> st, error |-> "db error"]
       ELSE [store |-> (st \ hit) \cup
                        {[r EXCEPT !.geojson = serviceAreaData.geojson,
                                   !.is_active = serviceAreaData.is_active] : r \in hit},
             error |-> NIL]

\* deleteServiceArea: delete().eq(id).eq(email); only a database error fails it.
deleteServiceArea(st, serviceAreaId, userEmail, dbError) ==
    IF dbError
    THEN [store |-> st, success |-> FALSE, error |-> "db error"]
    ELSE [store |-> st \ ScopedRows(st, serviceAreaId, userEmail),
          success |-> TRUE, error |-> NIL]

\* ---------------------------------------------------------- server actions
\* formData.get("id") of a form without the field.
NoId == 0
\* A FormData: every field a string, NIL when absent; geojson is JSON text.
FormData(id, serviceId, companyId, geojsonString, isActiveString) ==
    [id |-> id, service_id |-> serviceId, company_id |-> companyId,
     geojson |-> geojsonString, is_active |-> isActiveString]

\* A failed ActionResult; `error` is the fixed text of the message (the code
\* appends the gateway's own error text after ": ").
ActionFailure(st, nid, error) ==
    [success |-> FALSE, error |-> error, store |-> st, nextId |-> nid]
ActionSuccess(st, nid) ==
    [success |-> TRUE, error |-> NIL, store |-> st, nextId |-> nid]

\* A create action that stamps the row with an email field of the form when
\* the form has one.
createServiceAreaActionFormEmail(user, formData, st, nid, dbError) ==
    IF user = NIL THEN ActionFailure(st, nid, "User not authenticated")
    ELSE IF formData.service_id = NIL \/ formData.geojson = <<>> \/ formData.company_id = NIL
    THEN ActionFailure(st, nid, "Missing required fields")
    ELSE IF ~JSONparse(formData.geojson).ok
    THEN ActionFailure(st, nid, "Invalid GeoJSON format")
    ELSE LET owner == IF "email" \in DOMAIN formData /\ formData.email # NIL
                      THEN formData.email ELSE user
             result == createServiceArea(st, nid,
                          [service_id |-> formData.service_id,
                           company_id |-> formData.company_id,
                           geojson |-> JSONparse(formData.geojson).value,
                           is_active |-> (formData.is_active = "true"),
                           email |-> owner], dbError)
         IN IF result.error # NIL
            THEN ActionFailure(st, nid, "Error creating service area")
            ELSE ActionSuccess(result.store, result.nextId)

\* createServiceAreaAction(formData), run for the session of `user` (NIL: none).
createServiceAreaAction(user, formData, st, nid, dbError) ==
    IF user = NIL THEN ActionFailure(st, nid, "User not authenticated")
    ELSE IF formData.service_id = NIL \/ formData.geojson = <<>> \/ formData.company_id = NIL
    THEN ActionFailure(st, nid, "Missing required fields")
    ELSE IF ~JSONparse(formData.geojson).ok
    THEN ActionFailure(st, nid, "Invalid GeoJSON format")
    ELSE LET result == createServiceArea(st, nid,
                          [service_id |-> formData.service_id,
                           company_id |-> formData.company_id,
                           geojson |-> JSONparse(formData.geojson).value,
                           is_active |-> (formData.is_active = "true"),
                           email |-> user], dbError)
         IN IF result.error # NIL
            THEN ActionFailure(st, nid, "Error creating service area")
            ELSE ActionSuccess(result.store, result.nextId)

\* An update action without the required-fields check.
updateServiceAreaActionNoCheck(user, formData, st, nid, dbError) ==
    IF user = NIL THEN ActionFailure(st, nid, "User not authenticated")
    ELSE IF ~JSONparse(formData.geojson).ok
    THEN ActionFailure(st, nid, "Invalid GeoJSON format")
    ELSE LET result == updateServiceArea(st,
                          [id |-> formData.id,
                           geojson |-> JSONparse(formData.geojson).value,
                           is_active |-> (formData.is_active = "true"),
                           email |-> user], dbError)
         IN IF result.error # NIL
            THEN ActionFailure(st, nid, "Error updating service area")
            ELSE ActionSuccess(result.store, nid)

\* updateServiceAreaAction(formData)
updateServiceAreaAction(user, formData, st, nid, dbError) ==
    IF user = NIL THEN ActionFailure(st, nid, "User not authenticated")
    ELSE IF formData.id = NoId \/ formData.geojson = <<>>
    THEN ActionFailure(st, nid, "Missing required fields")
    ELSE IF ~JSONparse(formData.geojson).ok
    THEN ActionFailure(st, nid, "Invalid GeoJSON format")
    ELSE LET result == updateServiceArea(st,
                          [id |-> formData.id,
                           geojson |-> JSONparse(formData.geojson).value,
                           is_active |-> (formData.is_active = "true"),
                           email |-> user], dbError)
         IN IF result.error # NIL
            THEN ActionFailure(st, nid, "Error updating service area")
            ELSE ActionSuccess(result.store, nid)

\* A delete action without the authentication check.
deleteServiceAreaActionNoAuth(user, serviceAreaId, st, nid, dbError) ==
    LET result == deleteServiceArea(st, serviceAreaId, user, dbError)
    IN IF ~result.success
       THEN ActionFailure(st, nid, "Error deleting service area")
       ELSE ActionSuccess(result.store, nid)

\* deleteServiceAreaAction(serviceAreaId)
deleteServiceAreaAction(user, serviceAreaId, st, nid, dbError) ==
    IF user = NIL THEN ActionFailure(st, nid, "User not authenticated")
    ELSE LET result == deleteServiceArea(st, serviceAreaId, user, dbError)
         IN IF ~result.success
            THEN ActionFailure(st, nid, "Error deleting service area")
            ELSE ActionSuccess(result.store, nid)

\* getServiceAreasAction(companyId)
getServiceAreasAction(user, companyId, st, dbError) ==
    IF user = NIL THEN [success |-> FALSE, data |-> <<>>, error |-> "User not authenticated"]
    ELSE LET result == getServiceAreasByCompanyId(st, companyId, dbError)
         IN IF result.error # NIL
            THEN [success |-> FALSE, data |-> <<>>, error |-> "Error fetching service areas"]
            ELSE [success |-> TRUE, data |-> result.serviceAreas, error |-> NIL]

\* getServicesAction(companyId)
getServicesAction(user, companyId, dbError) ==
    IF user = NIL THEN [success |-> FALSE, data |-> {}, error |-> "User not authenticated"]
    ELSE LET result == getServicesByCompanyId(companyId, dbError)
         IN IF result.error # NIL
            THEN [success |-> FALSE, data |-> {}, error |-> result.error]
            ELSE [success |-> TRUE, data |-> result.services, error |-> NIL]

\* ------------------------------------------------------- the editor state
VARIABLES
    mode,                \* useState: NIL (idle) | "drawServiceArea" | "editServiceArea"
    serviceAreas,        \* useState: the cached ServiceArea list
    services,            \* useState: the cached Service list (ids)
    selectedServiceArea, \* useState: ServiceArea | NULL
    newServiceArea,      \* useState: the drawn candidate geometry | NULL
    selectedService,     \* useState: service id | NIL
    isActive,            \* useState: the active flag
    loading,             \* useState: a mutation is in flight
    layers,              \* featureGroupRef: the geometries of the layers in the group
    toast,               \* the toast the last step raised, NIL when it raised none
    store,               \* the service_areas table
    nextId,              \* the id the table assigns next
    requests,            \* server-action calls of the editor: sent, or answered
    loadReqs,            \* getServiceAreasAction calls sent and not yet served
    loadResps,           \* getServiceAreasAction results not yet delivered (a bag)
    svcPending,          \* the mount's getServicesAction call is outstanding
    lastResult           \* the result of the last server action called directly

vars == <<mode, serviceAreas, services, selectedServiceArea, newServiceArea,
          selectedService, isActive, loading, layers, toast, store, nextId,
          requests, loadReqs, loadResps, svcPending, lastResult>>

editorVars == <<mode, serviceAreas, services, selectedServiceArea, newServiceArea,
                selectedService, isActive, loading, layers>>
netVars == <<requests, loadReqs, loadResps, svcPending>>

DRAW == "drawServiceArea"
EDIT == "editServiceArea"

LoadsInFlight == loadReqs + BagCardinality(loadResps)

\* ------------------------------------------------------------ layer effects
\* A layer effect that adds the cached areas in every mode.
LayerEffectAnyMode(m, areas) == [i \in 1..Len(areas) |-> areas[i].geojson]

\* The effect keyed on [serviceAreas, mode]: clear, then one layer per cached
\* area unless drawing or editing.
LayerEffect(m, areas) ==
    IF m # EDIT /\ m # DRAW
    THEN [i \in 1..Len(areas) |-> areas[i].geojson]
    ELSE <<>>

\* An edit effect that adds nothing.
EditLayerEffectNone(m, sel, ls) == ls

\* An edit effect that adds the selected area's layer without clearing the
\* group first.
EditLayerEffectAppends(m, sel, ls) ==
    IF m = EDIT /\ sel # NULL THEN Append(ls, sel.geojson) ELSE ls

\* The effect keyed on [mode, selectedServiceArea]: in edit mode, the layer of
\* the selected area replaces what the group holds.
EditLayerEffect(m, sel, ls) ==
    IF m = EDIT /\ sel # NULL THEN <<sel.geojson>> ELSE ls

\* The layers after the render that follows a handler: `ls` is what the handler
\* left in the group; an effect runs only when one of its dependencies changed.
RunEffects(oldMode, newMode, areasChanged, oldSel, newSel, areas, ls) ==
    LET l1 == IF areasChanged \/ newMode # oldMode THEN LayerEffect(newMode, areas) ELSE ls
    IN IF newMode # oldMode \/ newSel # oldSel
       THEN EditLayerEffect(newMode, newSel, l1)
       ELSE l1

\* ------------------------------------------------------------------- Init
SeedRows ==
    { [id |-> 1, service_id |-> "S1", company_id |-> "C1", geojson |-> Polygon(1),
       is_active |-> FALSE, email |-> e] : e \in Emails }
    \cup { [id |-> 1, service_id |-> "S2", company_id |-> "C2", geojson |-> Polygon(1),
            is_active |-> FALSE, email |-> "attacker@example.com"] }

EditorInit ==
    /\ mode = NIL
    /\ serviceAreas = <<>>
    /\ services = {}
    /\ selectedServiceArea = NULL
    /\ newServiceArea = NULL
    /\ selectedService = NIL
    /\ isActive = TRUE
    /\ loading = FALSE
    /\ layers = <<>>
    /\ toast = NIL
    /\ requests = {}
    /\ loadResps = EmptyBag
    /\ lastResult = NULL

\* The editor just mounted: both mount fetches are out; the table holds what
\* earlier sessions left in it.
Init ==
    /\ EditorInit
    /\ loadReqs = 1
    /\ svcPending = TRUE
    /\ \/ store = {} /\ nextId = 1
       \/ \E r \in SeedRows : store = {r} /\ nextId = 2

\* --------------------------------------------------------------- requests
Request(kind, formData) ==
    [kind |-> kind, phase |-> "req", formData |-> formData,
     success |-> FALSE, error |-> NIL]
Response(kind, success, error) ==
    [kind |-> kind, phase |-> "resp", formData |-> NULL,
     success |-> success, error |-> error]
MutationKinds == {"create", "update", "delete"}

\* ------------------------------------------------------------ list fetches
\* getServiceAreasAction runs on the server against the table as it is now.
ServeLoad(outcomes) ==
    /\ loadReqs > 0
    /\ \E dbError \in outcomes :
         LET result == getServiceAreasAction(SessionEmail, CompanyId, store, dbError)
         IN loadResps' = loadResps (+) SetToBag({result})
    /\ loadReqs' = loadReqs - 1
    /\ toast' = NIL
    /\ UNCHANGED <<editorVars, store, nextId, requests, svcPending, lastResult>>

\* A loadServiceAreas that stores whatever came back.
LoadedServiceAreasAlways(result, cached) == result.data

\* The cached list after loadServiceAreas has handled a result.
LoadedServiceAreas(result, cached) == IF result.success THEN result.data ELSE cached

\* loadServiceAreas, after the await: any outstanding result may arrive next.
DeliverLoad ==
    \E result \in BagToSet(loadResps) :
      /\ loadResps' = loadResps (-) SetToBag({result})
      /\ \/ /\ result.success
            /\ serviceAreas' = LoadedServiceAreas(result, serviceAreas)
            /\ layers' = RunEffects(mode, mode, TRUE, selectedServiceArea,
                                    selectedServiceArea, serviceAreas', layers)
            /\ toast' = NIL
         \/ /\ ~result.success
            /\ toast' = "Failed to load service areas"
            /\ serviceAreas' = LoadedServiceAreas(result, serviceAreas)
            /\ UNCHANGED layers
      /\ UNCHANGED <<mode, services, selectedServiceArea, newServiceArea,
                     selectedService, isActive, loading, store, nextId, requests,
                     loadReqs, svcPending, lastResult>>

\* The cached list after loadServices has handled a result.
LoadedServices(result, cached) == IF result.success THEN result.data ELSE cached

\* loadServices: the mount's getServicesAction call and its continuation.
DeliverServices ==
    /\ svcPending
    /\ svcPending' = FALSE
    /\ \E dbError \in BOOLEAN :
         LET result == getServicesAction(SessionEmail, CompanyId, dbError)
         IN \/ /\ result.success
               /\ services' = LoadedServices(result, services)
               /\ toast' = NIL
            \/ /\ ~result.success
               /\ toast' = "Failed to load services"
               /\ services' = LoadedServices(result, services)
    /\ UNCHANGED <<mode, serviceAreas, selectedServiceArea, newServiceArea,
                   selectedService, isActive, loading, layers, store, nextId,
                   requests, loadReqs, loadResps, lastResult>>

\* An add-area click that keeps the selected area.
handleModeChangeKeepsSelection ==
    /\ mode = NIL
    /\ mode' = DRAW
    /\ newServiceArea' = NULL
    /\ selectedService' = NIL
    /\ isActive' = TRUE
    /\ layers' = RunEffects(mode, DRAW, FALSE, selectedServiceArea,
                            selectedServiceArea, serviceAreas, <<>>)
    /\ toast' = NIL
    /\ UNCHANGED <<serviceAreas, services, selectedServiceArea, loading, store,
                   nextId, netVars, lastResult>>

\* ------------------------------------------------------------ mode changes
\* handleModeChange("drawServiceArea"): the add-area control, shown when !mode.
handleModeChange ==
    /\ mode = NIL
    /\ mode' = DRAW
    /\ selectedServiceArea' = NULL
    /\ newServiceArea' = NULL
    /\ selectedService' = NIL
    /\ isActive' = TRUE
    /\ layers' = RunEffects(mode, DRAW, FALSE, selectedServiceArea, NULL,
                            serviceAreas, <<>>)
    /\ toast' = NIL
    /\ UNCHANGED <<serviceAreas, services, loading, store, nextId,
                   netVars, lastResult>>

\* The list fetches handleCancelEdit issues.
CancelLoads == 1

\* A handleCancelEdit that keeps the selected service and the active flag.
CancelEditKeepsPanel(sent) ==
    /\ mode' = NIL
    /\ selectedServiceArea' = NULL
    /\ newServiceArea' = NULL
    /\ UNCHANGED <<selectedService, isActive>>
    /\ layers' = RunEffects(mode, NIL, FALSE, selectedServiceArea, NULL,
                            serviceAreas, <<>>)
    /\ loadReqs' = loadReqs + sent + CancelLoads

\* The body of handleCancelEdit, with `sent` list fetches already issued by
\* the caller in the same handler.
CancelEdit(sent) ==
    /\ mode' = NIL
    /\ selectedServiceArea' = NULL
    /\ newServiceArea' = NULL
    /\ selectedService' = NIL
    /\ isActive' = TRUE
    /\ layers' = RunEffects(mode, NIL, FALSE, selectedServiceArea, NULL,
                            serviceAreas, <<>>)
    /\ loadReqs' = loadReqs + sent + CancelLoads

\* handleCancelEdit: the Cancel button of the draw panel or of the edit panel.
handleCancelEdit(cap) ==
    /\ mode = DRAW \/ (mode = EDIT /\ selectedServiceArea # NULL)
    /\ LoadsInFlight + CancelLoads <= cap
    /\ CancelEdit(0)
    /\ toast' = NIL
    /\ UNCHANGED <<serviceAreas, services, loading, store, nextId,
                   requests, loadResps, svcPending, lastResult>>

\* ------------------------------------------------------------- the panels
\* The service picker (onValueChange = setSelectedService) of either panel.
SelectService ==
    /\ mode = DRAW \/ (mode = EDIT /\ selectedServiceArea # NULL)
    /\ \E s \in services : s # selectedService /\ selectedService' = s
    /\ toast' = NIL
    /\ UNCHANGED <<mode, serviceAreas, services, selectedServiceArea, newServiceArea,
                   isActive, loading, layers, store, nextId, netVars,
                   lastResult>>

\* The Active switch (onCheckedChange = setIsActive) of either panel.
SetIsActive ==
    /\ mode = DRAW \/ (mode = EDIT /\ selectedServiceArea # NULL)
    /\ isActive' = ~isActive
    /\ toast' = NIL
    /\ UNCHANGED <<mode, serviceAreas, services, selectedServiceArea, newServiceArea,
                   selectedService, loading, layers, store, nextId, netVars,
                   lastResult>>

\* -------------------------------------------------------------- mutations
\* A first check that forgets the service.
MissingGeometryOnly(candidate, service) == candidate = NULL

\* The first check of handleSaveServiceArea.
MissingRequiredFields(candidate, service) == candidate = NULL \/ service = NIL
\* Its second check.
NotSinglePolygon(candidate) == candidate.type # "Polygon"

\* handleSaveServiceArea up to the await. The handler's own checks are kept
\* although the button is also disabled on the same condition.
handleSaveServiceArea ==
    /\ mode = DRAW
    /\ ~loading
    /\ IF MissingRequiredFields(newServiceArea, selectedService)
          \/ NotSinglePolygon(newServiceArea)
       THEN /\ toast' = IF MissingRequiredFields(newServiceArea, selectedService)
                       THEN "Please draw a service area and select a service."
                       ELSE "Service area must be a single polygon."
            /\ UNCHANGED <<loading, requests>>
       ELSE /\ loading' = TRUE
            /\ requests' = requests \cup
                 {Request("create", FormData(NoId, selectedService, CompanyId,
                                             JSONstringify(newServiceArea),
                                             BoolToString(isActive)))}
            /\ toast' = NIL
    /\ UNCHANGED <<mode, serviceAreas, services, selectedServiceArea, newServiceArea,
                   selectedService, isActive, layers, store, nextId, loadReqs,
                   loadResps, svcPending, lastResult>>

\* handleUpdateServiceArea up to the await.
handleUpdateServiceArea ==
    /\ mode = EDIT
    /\ selectedServiceArea # NULL
    /\ ~loading
    /\ loading' = TRUE
    /\ requests' = requests \cup
         {Request("update",
                  FormData(selectedServiceArea.id,
                           IF selectedService # NIL THEN selectedService
                           ELSE selectedServiceArea.service_id,
                           CompanyId,
                           JSONstringify(selectedServiceArea.geojson),
                           BoolToString(isActive)))}
    /\ toast' = NIL
    /\ UNCHANGED <<mode, serviceAreas, services, selectedServiceArea, newServiceArea,
                   selectedService, isActive, layers, store, nextId, loadReqs,
                   loadResps, svcPending, lastResult>>

\* handleDeleteServiceArea up to the await: the confirm button of the detail card.
handleDeleteServiceArea ==
    /\ selectedServiceArea # NULL
    /\ mode # EDIT
    /\ ~loading
    /\ loading' = TRUE
    /\ requests' = requests \cup
         {Request("delete", FormData(selectedServiceArea.id, NIL, NIL, <<>>, NIL))}
    /\ toast' = NIL
    /\ UNCHANGED <<mode, serviceAreas, services, selectedServiceArea, newServiceArea,
                   selectedService, isActive, layers, store, nextId, loadReqs,
                   loadResps, svcPending, lastResult>>

\* The server action a request names, run for `user` against the table.
RunAction(user, kind, formData, st, nid, dbError) ==
    CASE kind = "create" -> createServiceAreaAction(user, formData, st, nid, dbError)
      [] kind = "update" -> updateServiceAreaAction(user, formData, st, nid, dbError)
      [] kind = "delete" -> deleteServiceAreaAction(user, formData.id, st, nid, dbError)

\* The database outcomes open to a call: an insert into a full table fails.
DbOutcomes(kind, nid, maxId) ==
    IF kind = "create" /\ nid > maxId THEN {TRUE} ELSE BOOLEAN

\* The server runs the action of a request the editor sent.
ServeMutation ==
    \E m \in requests :
      /\ m.phase = "req"
      /\ \E dbError \in DbOutcomes(m.kind, nextId, MaxId) :
           LET result == RunAction(SessionEmail, m.kind, m.formData, store, nextId, dbError)
           IN /\ store' = result.store
              /\ nextId' = result.nextId
              /\ requests' = (requests \ {m}) \cup
                               {Response(m.kind, result.success, result.error)}
      /\ toast' = NIL
      /\ UNCHANGED <<editorVars, loadReqs, loadResps, svcPending, lastResult>>

\* The destructive toast of a failed save, update or delete.
FailureToast(kind) ==
    CASE kind = "create" -> "Failed to save service area"
      [] kind = "update" -> "Failed to update service area"
      [] kind = "delete" -> "Failed to delete service area"

\* An else branch that also leaves draw or edit mode and drops the candidate.
OnFailureResets(kind) ==
    /\ toast' = FailureToast(kind)
    /\ mode' = NIL
    /\ selectedServiceArea' = NULL
    /\ newServiceArea' = NULL
    /\ selectedService' = NIL
    /\ isActive' = TRUE
    /\ layers' = RunEffects(mode, NIL, FALSE, selectedServiceArea, NULL,
                            serviceAreas, <<>>)

\* The else branch of the three handlers: a destructive toast, nothing else.
OnFailure(kind) ==
    /\ toast' = FailureToast(kind)
    /\ UNCHANGED <<mode, selectedServiceArea, newServiceArea, selectedService,
                   isActive, layers>>

\* The list fetches a handler issues itself on success, before handleCancelEdit.
SuccessLoads == 1

\* The continuation of handleSave/Update/DeleteServiceArea after the await.
DeliverMutation(cap) ==
    \E m \in requests :
      /\ m.phase = "resp"
      /\ requests' = requests \ {m}
      /\ loading' = FALSE
      /\ \/ /\ m.success
            /\ LoadsInFlight + SuccessLoads + CancelLoads <= cap
            /\ toast' = "Success"
            /\ CancelEdit(SuccessLoads)
         \/ /\ ~m.success
            /\ OnFailure(m.kind)
            /\ UNCHANGED loadReqs
      /\ UNCHANGED <<serviceAreas, services, store, nextId, loadResps, svcPending,
                     lastResult>>

\* ------------------------------------------------------ drawing toolkit
\* An EditControl is mounted: in draw mode, or in edit mode with a selection.
EditControlMounted == mode = DRAW \/ (mode = EDIT /\ selectedServiceArea # NULL)

\* The geometries the draw toolbar can hand over (polygon is its only tool).
DrawableGeometries == Polygons

\* updateSelectedServiceAreaGeometries, reading the group as `ls`: the selected
\* area and the toast it raises.
updateSelectedServiceAreaGeometries(ls, sel) ==
    IF Len(ls) = 1
    THEN [selected |-> IF sel # NULL THEN [sel EXCEPT !.geojson = ls[1]] ELSE NULL,
          toast |-> NIL]
    ELSE [selected |-> sel,
          toast |-> "Please ensure there is exactly one polygon in the service area."]

\* The candidate after onCreated in draw mode.
CreatedCandidate(g, candidate) == g

\* onCreated: the group is cleared, then holds the new layer.
onCreated ==
    /\ EditControlMounted
    /\ \E g \in DrawableGeometries :
         \/ /\ mode = DRAW
            /\ newServiceArea' = CreatedCandidate(g, newServiceArea)
            /\ layers' = <<g>>
            /\ toast' = NIL
            /\ UNCHANGED <<selectedServiceArea>>
         \/ /\ mode = EDIT /\ selectedServiceArea # NULL
            /\ LET r == updateSelectedServiceAreaGeometries(<<g>>, selectedServiceArea)
               IN /\ selectedServiceArea' = r.selected
                  /\ toast' = r.toast
                  /\ layers' = EditLayerEffect(mode, r.selected, <<g>>)
            /\ UNCHANGED newServiceArea
    /\ UNCHANGED <<mode, serviceAreas, services, selectedService, isActive, loading,
                   store, nextId, netVars, lastResult>>

\* onEdited: the toolkit has reshaped the one layer of the group to g.
onEdited ==
    /\ EditControlMounted
    /\ Len(layers) = 1
    /\ \E g \in DrawableGeometries :
         /\ g # layers[1]
         /\ \/ /\ mode = EDIT /\ selectedServiceArea # NULL
               /\ LET r == updateSelectedServiceAreaGeometries(<<g>>, selectedServiceArea)
                  IN /\ selectedServiceArea' = r.selected
                     /\ toast' = r.toast
                     /\ layers' = EditLayerEffect(mode, r.selected, <<g>>)
            \/ /\ ~(mode = EDIT /\ selectedServiceArea # NULL)
               /\ layers' = <<g>>
               /\ toast' = NIL
               /\ UNCHANGED <<selectedServiceArea>>
    /\ UNCHANGED <<mode, serviceAreas, services, newServiceArea, selectedService,
                   isActive, loading, store, nextId, netVars, lastResult>>

\* onDeleted: the toolkit has removed the layer from the group.
onDeleted ==
    /\ EditControlMounted
    /\ Len(layers) = 1
    /\ layers' = <<>>
    /\ \/ /\ mode = EDIT /\ selectedServiceArea # NULL
          /\ LET r == updateSelectedServiceAreaGeometries(<<>>, selectedServiceArea)
             IN /\ selectedServiceArea' = r.selected
                /\ toast' = r.toast
       \/ /\ ~(mode = EDIT /\ selectedServiceArea # NULL)
          /\ toast' = NIL
          /\ UNCHANGED <<selectedServiceArea>>
    /\ UNCHANGED <<mode, serviceAreas, services, newServiceArea, selectedService,
                   isActive, loading, store, nextId, netVars, lastResult>>

\* ---------------------------------------------------------------- selection
\* Area layers that stay clickable in every mode.
AreaLayersShownAlways(m) == TRUE

\* The persisted areas (and their click handlers) are rendered only outside
\* draw and edit mode.
AreaLayersShown(m) == m # EDIT /\ m # DRAW

\* handleServiceAreaClick(area): the click handler of a persisted area's layer,
\* which the group holds only outside draw and edit mode.
handleServiceAreaClick ==
    /\ AreaLayersShown(mode)
    /\ \E i \in 1..Len(layers) :
         /\ i <= Len(serviceAreas)
         /\ selectedServiceArea' = serviceAreas[i]
         /\ selectedService' = serviceAreas[i].service_id
         /\ isActive' = serviceAreas[i].is_active
    /\ toast' = NIL
    /\ UNCHANGED <<mode, serviceAreas, services, newServiceArea, loading, layers,
                   store, nextId, netVars, lastResult>>

\* handleEditServiceArea: the Edit button of the detail card.
handleEditServiceArea ==
    /\ selectedServiceArea # NULL
    /\ mode # EDIT
    /\ mode' = EDIT
    /\ layers' = RunEffects(mode, EDIT, FALSE, selectedServiceArea,
                            selectedServiceArea, serviceAreas, layers)
    /\ toast' = NIL
    /\ UNCHANGED <<serviceAreas, services, selectedServiceArea, newServiceArea,
                   selectedService, isActive, loading, store, nextId,
                   netVars, lastResult>>

\* A map click that also resets the service picker and the active switch.
MapClickResetsPanel ==
    /\ selectedServiceArea # NULL
    /\ selectedServiceArea' = NULL
    /\ selectedService' = NIL
    /\ isActive' = TRUE
    /\ layers' = RunEffects(mode, mode, FALSE, selectedServiceArea, NULL,
                            serviceAreas, layers)
    /\ toast' = NIL
    /\ UNCHANGED <<mode, serviceAreas, services, newServiceArea, loading,
                   store, nextId, netVars, lastResult>>

\* MapClickHandler: onMapClick = setSelectedServiceArea(null).
MapClick ==
    /\ selectedServiceArea # NULL
    /\ selectedServiceArea' = NULL
    /\ layers' = RunEffects(mode, mode, FALSE, selectedServiceArea, NULL,
                            serviceAreas, layers)
    /\ toast' = NIL
    /\ UNCHANGED <<mode, serviceAreas, services, newServiceArea, selectedService,
                   isActive, loading, store, nextId, netVars, lastResult>>

\* ----------------------------------------------------------------- controls
\* The add-area control is rendered with isVisible = !mode.
AddAreaOffered == mode = NIL

\* The Cancel button sits in the draw panel and in the edit panel; the edit
\* panel is rendered only while an area is selected.
CancelOffered == mode = DRAW \/ (mode = EDIT /\ selectedServiceArea # NULL)

\* Save is disabled while loading or without a candidate or a service; Update
\* is disabled while loading.
SaveOffered ==
    \/ mode = DRAW /\ ~loading /\ newServiceArea # NULL /\ selectedService # NIL
    \/ mode = EDIT /\ selectedServiceArea # NULL /\ ~loading

\* ------------------------------------------------------------ specification
Next ==
    \/ ServeLoad(BOOLEAN)
    \/ DeliverLoad
    \/ DeliverServices
    \/ handleModeChange
    \/ handleCancelEdit(MaxLoads)
    \/ SelectService
    \/ SetIsActive
    \/ handleSaveServiceArea
    \/ handleUpdateServiceArea
    \/ handleDeleteServiceArea
    \/ ServeMutation
    \/ DeliverMutation(MaxLoads)
    \/ onCreated
    \/ onEdited
    \/ onDeleted
    \/ handleServiceAreaClick
    \/ handleEditServiceArea
    \/ MapClick

Spec == Init /\ [][Next]_vars

\* ----------------------------------------- overlapping list fetches
\* The editor of a company with one area of its own, where every list fetch
\* succeeds and one more fetch may be in flight: the order in which the
\* results of overlapping fetches arrive is all that varies.
RaceSeed ==
    {[id |-> 1, service_id |-> "S1", company_id |-> CompanyId, geojson |-> Polygon(1),
      is_active |-> FALSE, email |-> SessionEmail]}

InitRace ==
    /\ EditorInit
    /\ loadReqs = 1
    /\ svcPending = TRUE
    /\ store = RaceSeed
    /\ nextId = 2

NextRace ==
    \/ ServeLoad({FALSE})
    \/ DeliverLoad
    \/ DeliverServices
    \/ handleModeChange
    \/ handleCancelEdit(MaxRaceLoads)
    \/ handleDeleteServiceArea
    \/ handleUpdateServiceArea
    \/ SetIsActive
    \/ ServeMutation
    \/ DeliverMutation(MaxRaceLoads)
    \/ handleServiceAreaClick
    \/ handleEditServiceArea

SpecRace == InitRace /\ [][NextRace]_vars

\* ------------------------------------- the server actions, called directly
\* Sessions calling the exported server actions with forms of their own making.
Callers == Emails \cup {NIL}
GeojsonStrings ==
    {<<>>, <<"{", "Polygon">>}
      \cup {JSONstringify(Geometry(t, 1)) : t \in GeometryTypes}
CreateForms ==
    {FormData(NoId, sid, cid, g, a) :
       sid \in {NIL, "S1"}, cid \in {NIL, CompanyId}, g \in GeojsonStrings,
       a \in {"true", "false"}}
      \cup {FormData(NoId, "S2", CompanyId, JSONstringify(Polygon(1)), "true")}
UpdateForms ==
    {FormData(id, NIL, CompanyId, g, a) :
       id \in 0..MaxDirectId, g \in GeojsonStrings, a \in {"true", "false"}}

\* A form to which the client has added an email field of its own.
ClientForm(formData, email) ==
    [id |-> formData.id, service_id |-> formData.service_id,
     company_id |-> formData.company_id, geojson |-> formData.geojson,
     is_active |-> formData.is_active, email |-> email]

\* LocationsPage: what the page renders for the user and company it finds.
LocationsPage(user, company) ==
    IF user = NIL THEN "redirect:/sign-in"
    ELSE IF company = NIL THEN "redirect:/create-company"
    ELSE "ClientSideMap"

\* What a direct call leaves behind for inspection.
Called(kind, user, id, result) ==
    [kind |-> kind, user |-> user, id |-> id,
     success |-> result.success, error |-> result.error]

CallCreate ==
    /\ \E user \in Callers, formData \in CreateForms,
          dbError \in DbOutcomes("create", nextId, MaxDirectId) :
         LET result == createServiceAreaAction(user, formData, store, nextId, dbError)
         IN /\ store' = result.store
            /\ nextId' = result.nextId
            /\ lastResult' = Called("create", user, nextId, result)
    /\ UNCHANGED <<editorVars, toast, netVars>>

CallUpdate ==
    /\ \E user \in Callers, formData \in UpdateForms, dbError \in BOOLEAN :
         LET result == updateServiceAreaAction(user, formData, store, nextId, dbError)
         IN /\ store' = result.store
            /\ nextId' = result.nextId
            /\ lastResult' = Called("update", user, formData.id, result)
    /\ UNCHANGED <<editorVars, toast, netVars>>

CallDelete ==
    /\ \E user \in Callers, id \in 1..MaxDirectId, dbError \in BOOLEAN :
         LET result == deleteServiceAreaAction(user, id, store, nextId, dbError)
         IN /\ store' = result.store
            /\ nextId' = result.nextId
            /\ lastResult' = Called("delete", user, id, result)
    /\ UNCHANGED <<editorVars, toast, netVars>>

InitActions ==
    /\ EditorInit
    /\ loadReqs = 0
    /\ svcPending = FALSE
    /\ store = {}
    /\ nextId = 1

NextActions == CallCreate \/ CallUpdate \/ CallDelete

SpecActions == InitActions /\ [][NextActions]_vars

\* ------------------------------------------- the second copy of the editor
\* LocationsMap.tsx holds a second copy of the component (lines 765-1375). It
\* differs from the first in three places: its mount effect is keyed on
\* serviceAreas.length, its handleSaveServiceArea never sets loading, and its
\* delete confirm button is not disabled while loading.

\* The mutation calls the second copy may have outstanding in the model.
MaxInFlight == 2

\* The effect keyed on [serviceAreas.length]: loadServiceAreas() and
\* loadServices() run again when the length of the cached list changed.
LengthEffectLoads(old, new) == IF Len(new) # Len(old) THEN 1 ELSE 0

\* loadServiceAreas of the second copy, after the await, with the render that
\* follows. A service fetch started while one is outstanding is merged with it.
DeliverLoadSecond(cap) ==
    \E result \in BagToSet(loadResps) :
      /\ loadResps' = loadResps (-) SetToBag({result})
      /\ serviceAreas' = LoadedServiceAreas(result, serviceAreas)
      /\ LoadsInFlight - 1 + LengthEffectLoads(serviceAreas, serviceAreas') <= cap
      /\ loadReqs' = loadReqs + LengthEffectLoads(serviceAreas, serviceAreas')
      /\ svcPending' = (svcPending \/ LengthEffectLoads(serviceAreas, serviceAreas') > 0)
      /\ \/ /\ result.success
            /\ layers' = RunEffects(mode, mode, TRUE, selectedServiceArea,
                                    selectedServiceArea, serviceAreas', layers)
            /\ toast' = NIL
         \/ /\ ~result.success
            /\ toast' = "Failed to load service areas"
            /\ UNCHANGED layers
      /\ UNCHANGED <<mode, services, selectedServiceArea, newServiceArea,
                     selectedService, isActive, loading, store, nextId, requests,
                     lastResult>>

\* handleSaveServiceArea of the second copy up to the await: no setLoading(true).
handleSaveServiceAreaSecond ==
    /\ mode = DRAW
    /\ ~loading
    /\ IF MissingRequiredFields(newServiceArea, selectedService)
          \/ NotSinglePolygon(newServiceArea)
       THEN /\ toast' = IF MissingRequiredFields(newServiceArea, selectedService)
                       THEN "Please draw a service area and select a service."
                       ELSE "Service area must be a single polygon."
            /\ UNCHANGED requests
       ELSE LET call == Request("create",
                                FormData(NoId, selectedService, CompanyId,
                                         JSONstringify(newServiceArea),
                                         BoolToString(isActive)))
            IN /\ call \notin requests
               /\ Cardinality(requests) < MaxInFlight
               /\ requests' = requests \cup {call}
               /\ toast' = NIL
    /\ UNCHANGED <<mode, serviceAreas, services, selectedServiceArea, newServiceArea,
                   selectedService, isActive, loading, layers, store, nextId,
                   loadReqs, loadResps, svcPending, lastResult>>

\* handleDeleteServiceArea of the second copy up to the await: its confirm
\* button is enabled whatever loading is.
handleDeleteServiceAreaSecond ==
    /\ selectedServiceArea # NULL
    /\ mode # EDIT
    /\ LET call == Request("delete",
                           FormData(selectedServiceArea.id, NIL, NIL, <<>>, NIL))
       IN /\ call \notin requests
          /\ Cardinality(requests) < MaxInFlight
          /\ requests' = requests \cup {call}
    /\ loading' = TRUE
    /\ toast' = NIL
    /\ UNCHANGED <<mode, serviceAreas, services, selectedServiceArea, newServiceArea,
                   selectedService, isActive, layers, store, nextId, loadReqs,
                   loadResps, svcPending, lastResult>>

\* The draw-and-delete part of the second copy, with list fetches that succeed.
NextSecond ==
    \/ ServeLoad({FALSE})
    \/ DeliverLoadSecond(MaxLoads)
    \/ DeliverServices
    \/ handleModeChange
    \/ handleCancelEdit(MaxLoads)
    \/ SelectService
    \/ handleSaveServiceAreaSecond
    \/ handleDeleteServiceAreaSecond
    \/ ServeMutation
    \/ DeliverMutation(MaxLoads)
    \/ onCreated
    \/ handleServiceAreaClick

SpecSecond == Init /\ [][NextSecond]_vars

\* ------------------------------------------------------------ properties
\* The requests a step sends, and the responses a step hands to the editor.
Sent == {m \in requests' \ requests : m.phase = "req"}
Answered == {m \in requests' \ requests : m.phase = "resp"}
Delivered == {m \in requests : m.phase = "resp" /\ m \notin requests'}
Served == {m \in requests : m.phase = "req" /\ m \notin requests'}
\* The list-fetch results a step hands to the editor.
DeliveredLoads ==
    {r \in BagToSet(loadResps) : CopiesIn(r, loadResps') < CopiesIn(r, loadResps)}
\* The array a list fetch of the editor's company returns from the table.
GatewayList == SortById(RowsOfCompany(store, CompanyId))

\* C1: in draw or edit mode, while the transient layer holds zero or more than
\* one shape, no step sends a create or update call (Save fails validation).
SaveNeedsExactlyOneShape ==
    [][(mode \in {DRAW, EDIT} /\ Len(layers) # 1)
         => \A m \in Sent : m.kind \notin {"create", "update"}]_vars

\* C2: Save in draw mode with no candidate geometry or no selected service
\* sends no create call and leaves mode, candidate, service, active flag and
\* caches as they were; and in draw mode an empty service cache means no
\* service is selected.
SaveWithMissingFieldsFails ==
    [][/\ (mode = DRAW /\ (newServiceArea = NULL \/ selectedService = NIL))
            => /\ \A m \in Sent : m.kind # "create"
               /\ handleSaveServiceArea
                    => /\ UNCHANGED <<mode, newServiceArea, selectedService, isActive,
                                      serviceAreas, services, store>>
                       /\ toast' = "Please draw a service area and select a service."
       /\ (mode' = DRAW /\ services' = {}) => selectedService' = NIL]_vars

\* C2 witness: Save has just failed in draw mode with a drawn shape and an
\* empty service cache.
SaveFailedWithoutServices ==
    /\ mode = DRAW
    /\ toast = "Please draw a service area and select a service."
    /\ newServiceArea # NULL
    /\ services = {}
    /\ requests = {}

\* C3: every row of the table has a geometry of type Polygon.
EveryRowIsAPolygon == \A r \in store : r.geojson.type = "Polygon"

\* C4: a step changes or removes a row only through an update or delete call
\* whose email is the row's owner email; any other call leaves every row as
\* it was.
OnlyOwnerMutates ==
    [][\A r \in store :
         r \notin store'
           => /\ lastResult'.kind \in {"update", "delete"}
              /\ lastResult'.id = r.id
              /\ lastResult'.user = r.email]_vars

\* C4 witness: a session has just called update or delete on a row another
\* email owns, next to a row of its own, and the row is still there.
ForeignMutationRejected ==
    /\ lastResult # NULL
    /\ lastResult.kind \in {"update", "delete"}
    /\ \E r \in store : r.id = lastResult.id /\ r.email # lastResult.user
                         /\ lastResult.user # NIL
    /\ \E r \in store : r.email = lastResult.user

\* C5: a delete call for a row that another email owns is answered with a
\* failure (success = FALSE) and leaves the table as it was.
ForeignDeleteFails ==
    [][\A m \in Served :
         (m.kind = "delete"
            /\ \E r \in store : r.id = m.formData.id /\ r.email # SessionEmail)
           => /\ Answered # {}
              /\ \A n \in Answered : ~n.success
              /\ store' = store]_vars

\* C6: an update call that matches no row by (id, email) is answered
\* "Error updating service area" with success = FALSE and leaves the table as
\* it was; when that answer arrives the editor keeps its mode and its caches.
UnmatchedUpdateFails ==
    [][/\ \A m \in Served :
            (m.kind = "update"
               /\ ~\E r \in store : r.id = m.formData.id /\ r.email = SessionEmail)
              => /\ Answered # {}
                 /\ \A n \in Answered :
                      ~n.success /\ n.error = "Error updating service area"
                 /\ store' = store
       /\ \A m \in Delivered :
            (m.kind = "update" /\ ~m.success)
              => UNCHANGED <<mode, serviceAreas, services>>]_vars

\* C6 witness: the update of an area owned by another email has been refused
\* and the refusal has reached the editor, which is still editing that area.
UnmatchedUpdateRefused ==
    /\ toast = "Failed to update service area"
    /\ mode = EDIT
    /\ selectedServiceArea # NULL
    /\ selectedServiceArea.email # SessionEmail
    /\ selectedServiceArea \in store

\* C7: the step that handles a successful create, update or delete response
\* issues exactly one list fetch.
OneLoadPerSuccess ==
    [][\A m \in Delivered : m.success => loadReqs' = loadReqs + 1]_vars

\* C8: with every list fetch succeeding, once a mutation has changed the
\* table and nothing is in flight any more, the cached list is the gateway's
\* list of the company.
CacheMatchesGatewayWhenSettled ==
    (requests = {} /\ loadReqs = 0 /\ loadResps = EmptyBag /\ store # RaceSeed)
      => serviceAreas = GatewayList

\* C9: when a failed create, update or delete response arrives, mode,
\* candidate geometry, selection, selected service, active flag and caches
\* stay as they are, a destructive toast is raised and loading is off again.
FailureKeepsEditorState ==
    [][\A m \in Delivered :
         ~m.success
           => /\ UNCHANGED <<mode, newServiceArea, selectedServiceArea,
                             selectedService, isActive, serviceAreas, services>>
              /\ toast' \in {"Failed to save service area",
                             "Failed to update service area",
                             "Failed to delete service area"}
              /\ ~loading']_vars

\* C9 witness: a save has just failed and the draw panel still holds the
\* candidate and the service, with the Save button enabled.
SaveFailedAndRetryable ==
    /\ toast = "Failed to save service area"
    /\ mode = DRAW
    /\ newServiceArea # NULL
    /\ selectedService # NIL
    /\ ~loading

\* C10: a failed list or service fetch leaves the cached list as it was and
\* raises a destructive toast; the cached area list changes only to the data
\* of a successful fetch.
FailedLoadKeepsCache ==
    [][/\ \A r \in DeliveredLoads :
            IF r.success
            THEN serviceAreas' = r.data
            ELSE serviceAreas' = serviceAreas
                   /\ toast' = "Failed to load service areas"
       /\ serviceAreas' # serviceAreas => \E r \in DeliveredLoads : r.success
       /\ (svcPending /\ ~svcPending')
            => \/ toast' = "Failed to load services" /\ services' = services
               \/ toast' = NIL
       /\ services' # services => (svcPending /\ ~svcPending' /\ toast' = NIL)]_vars

\* C10 witness: a list fetch has just failed while the cache held an area.
FailedLoadWithCachedAreas ==
    /\ toast = "Failed to load service areas"
    /\ serviceAreas # <<>>

\* C11: at most one create, update or delete call is outstanding at any time,
\* and while one is outstanding the loading flag is true.
OneMutationInFlight ==
    /\ Cardinality(requests) <= 1
    /\ requests # {} => loading

\* C12: a step from idle into draw mode ends with no selected area, no
\* candidate geometry, no selected service, the active flag on and an empty
\* layer group.
EnteringDrawClearsEverything ==
    [][(mode = NIL /\ mode' = DRAW)
         => /\ selectedServiceArea' = NULL
            /\ newServiceArea' = NULL
            /\ selectedService' = NIL
            /\ isActive' = TRUE
            /\ layers' = <<>>]_vars

\* C12 witness: draw mode entered while the cache holds an area whose layer
\* was on the map: nothing is selected and the layer group is empty.
DrawEnteredOverCachedAreas ==
    /\ mode = DRAW
    /\ serviceAreas # <<>>
    /\ selectedServiceArea = NULL
    /\ newServiceArea = NULL
    /\ selectedService = NIL
    /\ layers = <<>>

\* C13: a step into edit mode keeps the selected area, leaves exactly its
\* geometry in the layer group, and has the area's service and active flag
\* preselected.
EnteringEditSeedsFromSelection ==
    [][(mode # EDIT /\ mode' = EDIT)
         => /\ selectedServiceArea # NULL
            /\ selectedServiceArea' = selectedServiceArea
            /\ layers' = <<selectedServiceArea.geojson>>
            /\ selectedService' = selectedServiceArea.service_id
            /\ isActive' = selectedServiceArea.is_active]_vars

\* C13 witness: edit mode just entered on an inactive area: its geometry is
\* the only layer and the switch shows inactive.
EditEnteredOnInactiveArea ==
    /\ mode = EDIT
    /\ selectedServiceArea # NULL
    /\ ~selectedServiceArea.is_active
    /\ ~isActive
    /\ selectedService = selectedServiceArea.service_id
    /\ layers = <<selectedServiceArea.geojson>>
    /\ requests = {}

\* C14: Cancel and every successful save, update or delete end idle with
\* nothing selected, no candidate, no service, the active flag on, a layer
\* group that is empty or redrawn from the cached areas (no unsaved shape left)
\* and a list fetch issued; and draw or edit mode is left for idle by no
\* other step.
OnlyCancelOrSuccessReturnsToIdle ==
    [][/\ (handleCancelEdit(MaxLoads) \/ \E m \in Delivered : m.success)
            => /\ mode' = NIL
               /\ selectedServiceArea' = NULL
               /\ newServiceArea' = NULL
               /\ selectedService' = NIL
               /\ isActive' = TRUE
               /\ layers' \in {<<>>, [i \in 1..Len(serviceAreas') |->
                                         serviceAreas'[i].geojson]}
               /\ loadReqs' > loadReqs
       /\ (mode \in {DRAW, EDIT} /\ mode' = NIL)
            => (handleCancelEdit(MaxLoads) \/ \E m \in Delivered : m.success)]_vars

\* C14 witness: a save has just succeeded on a drawn shape; the editor is idle,
\* the panel is reset and list fetches are out.
IdleAfterSuccessfulSave ==
    /\ toast = "Success"
    /\ mode = NIL
    /\ selectedServiceArea = NULL
    /\ newServiceArea = NULL
    /\ selectedService = NIL
    /\ isActive
    /\ loadReqs > 0
    /\ \E r \in store : r.is_active /\ r.email = SessionEmail

\* The ids of the services table.
ServiceIds == {t.id : t \in ServiceTable}

\* C15: a successful update leaves a row whose geometry, active flag and
\* service_id are the ones of the form the editor sent.
UpdateStoresLatestValues ==
    \A user \in Emails, f \in UpdateForms, sid \in ServiceIds :
      LET form == [f EXCEPT !.service_id = sid]
          result == updateServiceAreaAction(user, form, store, nextId, FALSE)
      IN result.success
           => \E r \in result.store :
                /\ r.id = form.id
                /\ r.email = user
                /\ r.geojson = JSONparse(form.geojson).value
                /\ r.is_active = (form.is_active = "true")
                /\ r.service_id = sid

\* C16: an Update on a selected area that is still the stored row sends that
\* row's geometry, and a served update leaves every row with the id, owner
\* email and company_id it had.
UpdateKeepsGeometryAndOwner ==
    [][/\ (mode = EDIT /\ selectedServiceArea \in store)
            => \A m \in Sent :
                 m.kind = "update"
                   => /\ m.formData.id = selectedServiceArea.id
                      /\ JSONparse(m.formData.geojson).ok
                      /\ JSONparse(m.formData.geojson).value = selectedServiceArea.geojson
                      /\ m.formData.is_active = BoolToString(isActive)
       /\ \A m \in Served :
            m.kind = "update"
              => /\ Cardinality(store') = Cardinality(store)
                 /\ \A r \in store :
                      \E r2 \in store' : /\ r2.id = r.id
                                         /\ r2.email = r.email
                                         /\ r2.company_id = r.company_id]_vars

\* C16 witness: the seeded inactive area has been updated to active with its
\* geometry untouched, and the answer is on its way to the editor.
FlagOnlyUpdateSucceeded ==
    /\ \E m \in requests : m.phase = "resp" /\ m.kind = "update" /\ m.success
    /\ \E r \in store : /\ r.is_active
                        /\ r.geojson = Polygon(1)
                        /\ [r EXCEPT !.is_active = FALSE] \in SeedRows
    /\ nextId = 2

\* C17: Save sends a form that parses back to the candidate geometry, the
\* active flag and the selected service; a served create that succeeds adds
\* exactly one row carrying them, owned by the session; and a list fetch that
\* succeeds returns the rows of the company as the table holds them.
DrawThenSaveRoundTrips ==
    [][/\ mode = DRAW
            => \A m \in Sent :
                 m.kind = "create"
                   => /\ JSONparse(m.formData.geojson).ok
                      /\ JSONparse(m.formData.geojson).value = newServiceArea
                      /\ (m.formData.is_active = "true") = isActive
                      /\ m.formData.service_id = selectedService
                      /\ m.formData.company_id = CompanyId
       /\ \A m \in Served :
            (m.kind = "create" /\ \E n \in Answered : n.success)
              => \E r \in store' :
                   /\ store' = store \cup {r}
                   /\ r \notin store
                   /\ r.geojson = JSONparse(m.formData.geojson).value
                   /\ r.is_active = (m.formData.is_active = "true")
                   /\ r.service_id = m.formData.service_id
                   /\ r.company_id = m.formData.company_id
                   /\ r.email = SessionEmail
       /\ \A res \in BagToSet(loadResps') :
            (CopiesIn(res, loadResps') > CopiesIn(res, loadResps) /\ res.success)
              => res.data = GatewayList]_vars

\* C17 witness: an inactive area drawn with the second ring has been created
\* in an empty table, and the answer is on its way to the editor.
DrawnInactiveAreaCreated ==
    /\ \E m \in requests : m.phase = "resp" /\ m.kind = "create" /\ m.success
    /\ \E r \in store : /\ ~r.is_active
                        /\ r.geojson = Polygon(2)
                        /\ r.service_id = "S1"
                        /\ r.email = SessionEmail

\* C18: every row a call adds, rewrites or removes is owned by the session
\* email of the caller, and an email field put into the form changes nothing
\* in what the create and update actions do.
SessionEmailStampsEveryCall ==
    /\ [][\A r \in (store' \ store) \cup (store \ store') :
            /\ lastResult'.user # NIL
            /\ r.email = lastResult'.user]_vars
    /\ [](\A user \in Callers, email \in Emails, dbError \in BOOLEAN :
            /\ \A f \in CreateForms :
                 createServiceAreaAction(user, ClientForm(f, email), store, nextId, dbError)
                   = createServiceAreaAction(user, f, store, nextId, dbError)
            /\ \A f \in UpdateForms :
                 updateServiceAreaAction(user, ClientForm(f, email), store, nextId, dbError)
                   = updateServiceAreaAction(user, f, store, nextId, dbError))

\* C18 witness: two sessions have each created a row, and each row carries
\* the email of the session that created it.
EachSessionOwnsItsRow ==
    /\ lastResult # NULL
    /\ lastResult.kind = "create"
    /\ lastResult.success
    /\ \E r \in store : r.id = lastResult.id /\ r.email = lastResult.user
    /\ \E r \in store : r.email # lastResult.user

\* C19: a call without a session fails with "User not authenticated" and
\* leaves the table as it was, for the create, update, delete and list
\* actions alike; and the locations page renders no editor without a user.
UnauthenticatedCallsFail ==
    /\ [][(lastResult' # lastResult /\ lastResult'.user = NIL)
            => /\ ~lastResult'.success
               /\ lastResult'.error = "User not authenticated"
               /\ store' = store
               /\ nextId' = nextId]_vars
    /\ [](/\ \A dbError \in BOOLEAN :
               LET result == getServiceAreasAction(NIL, CompanyId, store, dbError)
               IN ~result.success /\ result.error = "User not authenticated"
          /\ \A company \in Companies \cup {NIL} :
               LocationsPage(NIL, company) # "ClientSideMap")

\* C19 witness: a delete without a session was aimed at a stored row, failed,
\* and the row is still there.
UnauthenticatedDeleteRefused ==
    /\ lastResult # NULL
    /\ lastResult.user = NIL
    /\ lastResult.kind = "delete"
    /\ lastResult.error = "User not authenticated"
    /\ \E r \in store : r.id = lastResult.id

\* The toasts of the editor's own validation.
ValidationToasts ==
    {"Please draw a service area and select a service.",
     "Service area must be a single polygon.",
     "Please ensure there is exactly one polygon in the service area."}

\* C20: a create form without service id or geometry, or an update form
\* without area id or geometry, is answered "Missing required fields"; a form
\* with its required fields whose geometry is not JSON is answered "Invalid
\* GeoJSON format"; neither writes to the table; and a step in which the
\* editor's validation raises its toast keeps the mode and sends nothing.
InvalidFormsAreRefused ==
    /\ [](\A dbError \in BOOLEAN :
            /\ \A f \in CreateForms :
                 LET result == createServiceAreaAction(SessionEmail, f, store, nextId, dbError)
                 IN /\ (f.service_id = NIL \/ f.geojson = <<>>)
                         => /\ ~result.success
                            /\ result.error = "Missing required fields"
                            /\ result.store = store
                    /\ (f.service_id # NIL /\ f.company_id # NIL /\ f.geojson # <<>>
                          /\ ~JSONparse(f.geojson).ok)
                         => /\ ~result.success
                            /\ result.error = "Invalid GeoJSON format"
                            /\ result.store = store
            /\ \A f \in UpdateForms :
                 LET result == updateServiceAreaAction(SessionEmail, f, store, nextId, dbError)
                 IN /\ (f.id = NoId \/ f.geojson = <<>>)
                         => /\ ~result.success
                            /\ result.error = "Missing required fields"
                            /\ result.store = store
                    /\ (f.id # NoId /\ f.geojson # <<>> /\ ~JSONparse(f.geojson).ok)
                         => /\ ~result.success
                            /\ result.error = "Invalid GeoJSON format"
                            /\ result.store = store)
    /\ [][toast' \in ValidationToasts => (mode' = mode /\ Sent = {})]_vars

\* C20 witness: in edit mode the shape was removed and the editor's validation
\* has raised its toast; the editor is still editing.
EditValidationFailed ==
    /\ toast = "Please ensure there is exactly one polygon in the service area."
    /\ mode = EDIT
    /\ selectedServiceArea # NULL
    /\ layers = <<>>

\* C21: in draw or edit mode no step selects a persisted area: the selection
\* changes only by being cleared or, in edit mode, by the toolkit rewriting
\* the geometry of the area already selected.
NoSelectionWhileDrawingOrEditing ==
    [][(mode \in {DRAW, EDIT} /\ selectedServiceArea' # selectedServiceArea)
         => \/ selectedServiceArea' = NULL
            \/ /\ mode = EDIT
               /\ selectedServiceArea # NULL
               /\ Len(layers') = 1
               /\ selectedServiceArea'
                    = [selectedServiceArea EXCEPT !.geojson = layers'[1]]]_vars

\* C21 witness: in edit mode the cache holds an area that is not the selected
\* (reshaped) one, and the layer group holds only the selected shape.
EditingBesideCachedArea ==
    /\ mode = EDIT
    /\ selectedServiceArea # NULL
    /\ serviceAreas # <<>>
    /\ \A i \in 1..Len(serviceAreas) : serviceAreas[i] # selectedServiceArea
    /\ layers = <<selectedServiceArea.geojson>>

\* C22: every row of the table references a service of the services table
\* whose company is the row's own company.
ServiceOfSameCompany ==
    \A r \in store :
      \E t \in ServiceTable : t.id = r.service_id /\ t.company_id = r.company_id

\* C23: in draw and edit mode the layer group never holds more than one
\* shape; a create event leaves exactly the new shape in it, and a step into
\* edit mode leaves exactly one shape in it.
AtMostOneShapeWhileEditing ==
    /\ [](mode \in {DRAW, EDIT} => Len(layers) <= 1)
    /\ [][/\ onCreated => (Len(layers') = 1 /\ layers'[1] \in DrawableGeometries)
          /\ (mode # EDIT /\ mode' = EDIT) => Len(layers') = 1]_vars

\* C23 witness: in edit mode the stored shape of the selected area has been
\* replaced by a newly drawn one, which is the only layer of the group.
RedrawnShapeReplacedSeed ==
    /\ mode = EDIT
    /\ selectedServiceArea # NULL
    /\ \E r \in store : r.id = selectedServiceArea.id /\ r.geojson = Polygon(1)
    /\ selectedServiceArea.geojson = Polygon(2)
    /\ layers = <<Polygon(2)>>

\* C24: a create, edit or delete event of the drawing toolkit leaves, in draw
\* mode, a candidate that is the geometry of the one shape in the group (none
\* when the group is empty) and, in edit mode, a selected area whose geometry
\* is that shape.
CandidateFollowsLayer ==
    [][(onCreated \/ onEdited \/ onDeleted)
         => /\ mode = DRAW
                 => IF layers' = <<>> THEN newServiceArea' = NULL
                                      ELSE layers' = <<newServiceArea'>>
            /\ (mode = EDIT /\ layers' # <<>>)
                 => layers' = <<selectedServiceArea'.geojson>>]_vars

EditModeHasSelection == mode = EDIT => selectedServiceArea # NULL

\* C27: in draw or edit mode with no request in flight, Cancel, Save or the
\* add-area control is offered.
NeverStuckOutsideIdle ==
    (mode \in {DRAW, EDIT} /\ requests = {} /\ LoadsInFlight = 0 /\ ~svcPending)
      => (CancelOffered \/ SaveOffered \/ AddAreaOffered)

\* C28: the mode starts idle; draw mode is entered only from idle by the
\* add-area action, edit mode only from idle on the selected area, draw and
\* edit mode are left only for idle, and in draw mode no area is selected.
ModeCyclesThroughIdle ==
    /\ mode = NIL
    /\ [](mode = DRAW => selectedServiceArea = NULL)
    /\ [][/\ (mode' = DRAW /\ mode # DRAW) => (mode = NIL /\ AddAreaOffered /\ handleModeChange)
          /\ (mode' = EDIT /\ mode # EDIT)
               => /\ mode = NIL
                  /\ selectedServiceArea # NULL
                  /\ selectedServiceArea' = selectedServiceArea
          /\ (mode \in {DRAW, EDIT} /\ mode' # mode) => mode' = NIL]_vars

\* C28 witness: a second cycle: draw mode with a shape drawn, while the cache
\* already shows an active area this session saved in an earlier cycle.
SecondDrawCycle ==
    /\ mode = DRAW
    /\ newServiceArea # NULL
    /\ selectedServiceArea = NULL
    /\ \E i \in 1..Len(serviceAreas) :
         serviceAreas[i].is_active /\ serviceAreas[i].email = SessionEmail

\* C29: a list response handled in draw or edit mode leaves the layer group
\* as it was.
LoadLeavesShapeLayerAlone ==
    [][(mode \in {DRAW, EDIT} /\ DeliveredLoads # {}) => layers' = layers]_vars

\* C30: a create response handled in edit mode, an update response handled in
\* draw mode and a delete response handled in draw or edit mode (each the
\* answer to a call of an earlier cycle) leave mode, candidate, selection,
\* service and active flag as they were.
StaleResponseSparesNewCycle ==
    [][\A m \in Delivered :
         ((m.kind = "create" /\ mode = EDIT)
            \/ (m.kind = "update" /\ mode = DRAW)
            \/ (m.kind = "delete" /\ mode \in {DRAW, EDIT}))
           => UNCHANGED <<mode, newServiceArea, selectedServiceArea,
                          selectedService, isActive>>]_vars
====
